---- MODULE Spec2Model ----
(***************************************************************************)
(* Model of analyzeSyntheticLabValues.py: a one-shot batch pipeline         *)
(*   load_data -> create_zip_output { process_alp ; process_ldl }           *)
(* A table is a sequence of rows [idx, code, value]; idx is the pandas      *)
(* index label of the row.  A group mean is the exact rational sum/count,   *)
(* kept in lowest terms as [num, den].  A blob (CSV text, PNG image) is a   *)
(* sequence of parts; the zero-byte blob is the empty sequence.             *)
(***************************************************************************)
EXTENDS Integers, Sequences, FiniteSets, TLC

VARIABLES
    input,          \* the file at input_path: [present, columns, rows]
    writable,       \* whether zip_path can be opened for writing
    pc,             \* position of the run
    df,             \* the table held by main / create_zip_output
    filtered_df,    \* [alp, ldl]: filtered_df of process_alp / process_ldl
    result,         \* [alp, ldl]: what generate_row_group_density returned
    disk,           \* the archive at zip_path: [exists, entries]
    stderr,         \* diagnostic messages the run has emitted
    run,            \* number of the current run of the script
    prev,           \* the archive as the previous run left it
    rows_per_group, \* the rows_per_group argument
    ret             \* return value of a direct generate_row_group_density call

vars == <<input, writable, pc, df, filtered_df, result, disk, stderr, run,
          prev, rows_per_group, ret>>

----------------------------------------------------------------------------
(* Bounds of the model *)

MaxRows == 3
MaxN == 7
MaxW == 4
MaxRuns == 2

(* Program constants *)

DefaultRowsPerGroup == 10

alp_codes == <<"109532-2", "1783-0", "59164-4", "16337-8">>

ldl_codes == <<"13457-7", "53133-5", "96258-9", "69419-0">>

value_col == "Observation.value"

code_col == "Observation.code"

parse_dates == {"Patient.birthDate", "Condition.recordedDate",
                "Observation.effective.x.extension.QuelleKlinischesBezugsdatum"}

CsvHeader == <<"group_index", "group_mean">>

EntryNames == [alp |-> [csv |-> "alp_counts_synth.csv", png |-> "alp_density_synth.png"],
               ldl |-> [csv |-> "ldl_counts_synth.csv", png |-> "ldl_density_synth.png"]]

Labels == [alp |-> [xlabel |-> "Mean ALP value (mmol/L, per 10 rows)",
                    title |-> "ALP Grouped Mean Density"],
           ldl |-> [xlabel |-> "Mean LDL value (U/L, per 10 rows)",
                    title |-> "LDL Grouped Mean Density"]]

----------------------------------------------------------------------------
(* Helpers *)

Range(s) == {s[i] : i \in DOMAIN s}

Min(a, b) == IF a <= b THEN a ELSE b

RECURSIVE Gcd(_, _)
Gcd(a, b) == IF b = 0 THEN a ELSE Gcd(b, a % b)

RECURSIVE SumValues(_)
SumValues(t) == IF t = <<>> THEN 0 ELSE Head(t).value + SumValues(Tail(t))

----------------------------------------------------------------------------
(* filter_lab_data *)

\* df[mask]: boolean-mask selection keeps the rows whose mask is True, in order
IsinCodes(t, loinc_codes) == SelectSeq(t, LAMBDA r : r.code \in Range(loinc_codes))

\* mutant: the comparison written >= 0
NonNegativeValues(t) == SelectSeq(t, LAMBDA r : r.value >= 0)

PositiveValues(t) == SelectSeq(t, LAMBDA r : r.value > 0)

RECURSIVE InsertByValue(_, _)
InsertByValue(r, s) ==
    IF s = <<>> THEN <<r>>
    ELSE IF r.value <= Head(s).value THEN <<r>> \o s
    ELSE <<Head(s)>> \o InsertByValue(r, Tail(s))

RECURSIVE SortValues(_)
SortValues(t) == IF t = <<>> THEN <<>> ELSE InsertByValue(Head(t), SortValues(Tail(t)))

\* mutant: the kept rows come back sorted by value
filter_lab_data_sorted(t, loinc_codes) ==
    [ret |-> SortValues(PositiveValues(IsinCodes(t, loinc_codes))), df |-> t]

\* mutant: the filter narrows the caller's table instead of a copy
filter_lab_data_inplace(t, loinc_codes) ==
    [ret |-> PositiveValues(IsinCodes(t, loinc_codes)),
     df |-> PositiveValues(IsinCodes(t, loinc_codes))]

\* ret is the returned table, df the argument table as the call leaves it
filter_lab_data(t, loinc_codes) ==
    [ret |-> PositiveValues(IsinCodes(t, loinc_codes)), df |-> t]

----------------------------------------------------------------------------
(* generate_row_group_density *)

RECURSIVE InsertByIdx(_, _)
InsertByIdx(r, s) ==
    IF s = <<>> THEN <<r>>
    ELSE IF r.idx <= Head(s).idx THEN <<r>> \o s
    ELSE <<Head(s)>> \o InsertByIdx(r, Tail(s))

RECURSIVE SortIndex(_)
SortIndex(t) == IF t = <<>> THEN <<>> ELSE InsertByIdx(Head(t), SortIndex(Tail(t)))

ResetIndex(t) == [i \in 1..Len(t) |-> [t[i] EXCEPT !.idx = i - 1]]

\* df.iloc[start:end]: positions start .. end-1, clipped to the table
Iloc(t, start, end) == SubSeq(t, start + 1, Min(end, Len(t)))

\* mutant: the sum of the chunk instead of its mean
MeanAsSum(chunk) == [num |-> SumValues(chunk), den |-> 1]

\* chunk[value_col].mean()
Mean(chunk) ==
    LET s == SumValues(chunk)
        n == Len(chunk)
        g == Gcd(s, n)
    IN  [num |-> s \div g, den |-> n \div g]

\* mutant: the loop stops before a window that is not full
RECURSIVE ChunkLoopFullOnly(_, _, _, _)
ChunkLoopFullOnly(t, W, start, acc) ==
    IF start + W > Len(t) THEN acc
    ELSE ChunkLoopFullOnly(t, W, start + W, Append(acc, Iloc(t, start, start + W)))

\* for start in range(0, len(df), rows_per_group): the chunks that get a mean
RECURSIVE ChunkLoop(_, _, _, _)
ChunkLoop(t, W, start, acc) ==
    IF start >= Len(t) THEN acc
    ELSE LET chunk == Iloc(t, start, start + W)
         IN  IF Len(chunk) = 0
             THEN ChunkLoop(t, W, start + W, acc)
             ELSE ChunkLoop(t, W, start + W, Append(acc, chunk))

GroupedFrame(chunks) ==
    [k \in 1..Len(chunks) |-> [group_index |-> k - 1, group_mean |-> Mean(chunks[k])]]

\* grouped.to_csv(index=False): a header line, then one line per record
ToCsv(grouped) ==
    <<[kind |-> "header", cols |-> CsvHeader]>> \o
    [k \in 1..Len(grouped) |->
        [kind |-> "row", cols |-> <<grouped[k].group_index, grouped[k].group_mean>>]]

\* mutant: the figure is drawn and saved without the emptiness test
RenderPngAlways(grouped, title, xlabel) ==
    <<[kind |-> "png", title |-> title, xlabel |-> xlabel, ylabel |-> "Density",
       data |-> [k \in 1..Len(grouped) |-> grouped[k].group_mean]]>>

\* the PNG buffer: written only when grouped is not empty
RenderPng(grouped, title, xlabel) ==
    IF grouped # <<>>
    THEN <<[kind |-> "png", title |-> title, xlabel |-> xlabel, ylabel |-> "Density",
            data |-> [k \in 1..Len(grouped) |-> grouped[k].group_mean]]>>
    ELSE <<>>

\* mutant: an empty aggregate is reported with a warning
generate_row_group_density_warns(t, title, xlabel, W) ==
    LET sorted == ResetIndex(SortIndex(t))
        chunks == ChunkLoop(sorted, W, 0, <<>>)
        grouped == GroupedFrame(chunks)
    IN  [csv |-> ToCsv(grouped), png |-> RenderPng(grouped, title, xlabel),
         grouped |-> grouped, chunks |-> chunks,
         messages |-> IF grouped = <<>> THEN <<"EmptyResultWarning">> ELSE <<>>]

generate_row_group_density(t, title, xlabel, W) ==
    LET sorted == ResetIndex(SortIndex(t))
        chunks == ChunkLoop(sorted, W, 0, <<>>)
        grouped == GroupedFrame(chunks)
    IN  [csv |-> ToCsv(grouped), png |-> RenderPng(grouped, title, xlabel),
         grouped |-> grouped, chunks |-> chunks, messages |-> <<>>]

----------------------------------------------------------------------------
(* The inputs of a run *)

AllColumns == parse_dates \cup {code_col, value_col}

Codes == {"1783-0", "13457-7", "0000-0"}

Values == {-1, 0, 1, 2}

PosValues == {1, 2}

\* tables as read_csv builds them: the index labels are 0 .. n-1 in row order
RawTables ==
    UNION {{[i \in 1..n |-> [idx |-> i - 1, code |-> c[i], value |-> v[i]]] :
                c \in [1..n -> Codes], v \in [1..n -> Values]} : n \in 0..MaxRows}

\* files that lack a column the script names
BrokenColumns == {AllColumns \ {value_col}, AllColumns \ {code_col},
                  AllColumns \ {"Patient.birthDate"}}

Inputs ==
    {[present |-> TRUE, columns |-> AllColumns, rows |-> t] : t \in RawTables}
    \cup {[present |-> TRUE, columns |-> c, rows |-> <<>>] : c \in BrokenColumns}
    \cup {[present |-> FALSE, columns |-> {}, rows |-> <<>>]}

\* tables as filter_lab_data returns them: a subsequence of a read_csv table,
\* so index labels strictly increasing, every value positive
RECURSIVE KeptRows(_, _)
KeptRows(f, i) ==
    IF i >= MaxN THEN <<>>
    ELSE IF f[i] = 0 THEN KeptRows(f, i + 1)
    ELSE <<[idx |-> i, code |-> "1783-0", value |-> f[i]]>> \o KeptRows(f, i + 1)

FilteredTables == {KeptRows(f, 0) : f \in [0..(MaxN - 1) -> {0} \cup PosValues]}

NoResult == [csv |-> <<>>, png |-> <<>>, grouped |-> <<>>, chunks |-> <<>>,
             messages |-> <<>>]

NoArchive == [exists |-> FALSE, entries |-> <<>>]

----------------------------------------------------------------------------
(* The pipeline: main -> load_data -> create_zip_output *)

Init ==
    /\ input \in Inputs
    /\ writable \in BOOLEAN
    /\ pc = "start"
    /\ df = <<>>
    /\ filtered_df = [alp |-> <<>>, ldl |-> <<>>]
    /\ result = [alp |-> NoResult, ldl |-> NoResult]
    /\ disk = NoArchive
    /\ stderr = <<>>
    /\ run = 1
    /\ prev = NoArchive
    /\ rows_per_group = DefaultRowsPerGroup
    /\ ret = NoResult

\* pd.read_csv(filepath, parse_dates=[...]) raises when the file or a date column is missing
CanLoad(f) == f.present /\ parse_dates \subseteq f.columns

\* df["Observation.code"] and filtered[value_col] raise KeyError on a missing column
CanFilter(f) == code_col \in f.columns /\ value_col \in f.columns

load_data ==
    /\ pc = "start"
    /\ IF CanLoad(input)
       THEN /\ df' = input.rows
            /\ pc' = "loaded"
       ELSE /\ pc' = "failed"
            /\ UNCHANGED df
    /\ UNCHANGED <<input, writable, filtered_df, result, disk, stderr, run, prev,
                   rows_per_group, ret>>

\* mutant: the archive opened in append mode
ZipFileOpenAppend(d) == [exists |-> TRUE, entries |-> d.entries]

\* zipfile.ZipFile(zip_path, "w", ...): mode "w" creates or truncates the file
ZipFileOpen(d) == [exists |-> TRUE, entries |-> <<>>]

open_zip ==
    /\ pc = "loaded"
    /\ IF writable
       THEN /\ disk' = ZipFileOpen(disk)
            /\ pc' = "alp"
       ELSE /\ pc' = "failed"
            /\ UNCHANGED disk
    /\ UNCHANGED <<input, writable, df, filtered_df, result, stderr, run, prev,
                   rows_per_group, ret>>

\* process_alp / process_ldl; an exception leaves the with block, which closes
\* the archive with the entries written so far
process(cat, loinc_codes, next) ==
    IF CanFilter(input)
    THEN LET f == filter_lab_data(df, loinc_codes)
             r == generate_row_group_density(f.ret, Labels[cat].title,
                                             Labels[cat].xlabel, rows_per_group)
         IN  /\ df' = f.df
             /\ filtered_df' = [filtered_df EXCEPT ![cat] = f.ret]
             /\ result' = [result EXCEPT ![cat] = r]
             /\ stderr' = stderr \o r.messages
             /\ pc' = next
    ELSE /\ pc' = "failed"
         /\ UNCHANGED <<df, filtered_df, result, stderr>>

process_alp ==
    /\ pc = "alp"
    /\ process("alp", alp_codes, "alp_csv")
    /\ UNCHANGED <<input, writable, disk, run, prev, rows_per_group, ret>>

process_ldl ==
    /\ pc = "ldl"
    /\ process("ldl", ldl_codes, "ldl_csv")
    /\ UNCHANGED <<input, writable, disk, run, prev, rows_per_group, ret>>

\* mutant: an empty blob is not written
writestr_skip_empty(d, name, data) ==
    IF data = <<>> THEN d
    ELSE [d EXCEPT !.entries = Append(@, [name |-> name, data |-> data])]

\* zf.writestr(name, data)
writestr(d, name, data) ==
    [d EXCEPT !.entries = Append(@, [name |-> name, data |-> data])]

write(at, cat, part, next) ==
    /\ pc = at
    /\ disk' = writestr(disk, EntryNames[cat][part], result[cat][part])
    /\ pc' = next
    /\ UNCHANGED <<input, writable, df, filtered_df, result, stderr, run, prev,
                   rows_per_group, ret>>

write_alp_csv == write("alp_csv", "alp", "csv", "alp_png")

write_alp_png == write("alp_png", "alp", "png", "ldl")

write_ldl_csv == write("ldl_csv", "ldl", "csv", "ldl_png")

write_ldl_png == write("ldl_png", "ldl", "png", "close")

close_zip ==
    /\ pc = "close"
    /\ pc' = "done"
    /\ UNCHANGED <<input, writable, df, filtered_df, result, disk, stderr, run,
                   prev, rows_per_group, ret>>

\* the script is started again on the same input file and output path
rerun ==
    /\ pc \in {"done", "failed"}
    /\ run < MaxRuns
    /\ run' = run + 1
    /\ prev' = disk
    /\ pc' = "start"
    /\ df' = <<>>
    /\ filtered_df' = [alp |-> <<>>, ldl |-> <<>>]
    /\ result' = [alp |-> NoResult, ldl |-> NoResult]
    /\ stderr' = <<>>
    /\ UNCHANGED <<input, writable, disk, rows_per_group, ret>>

Next ==
    \/ load_data
    \/ open_zip
    \/ process_alp
    \/ write_alp_csv
    \/ write_alp_png
    \/ process_ldl
    \/ write_ldl_csv
    \/ write_ldl_png
    \/ close_zip
    \/ rerun

Spec == Init /\ [][Next]_vars

----------------------------------------------------------------------------
(* generate_row_group_density called on a filtered table with a window size *)

InitAgg ==
    /\ input = [present |-> FALSE, columns |-> {}, rows |-> <<>>]
    /\ writable = FALSE
    /\ pc = "call"
    /\ df \in FilteredTables
    /\ filtered_df = [alp |-> <<>>, ldl |-> <<>>]
    /\ result = [alp |-> NoResult, ldl |-> NoResult]
    /\ disk = NoArchive
    /\ stderr = <<>>
    /\ run = 1
    /\ prev = NoArchive
    /\ rows_per_group \in 1..MaxW
    /\ ret = NoResult

call_generate ==
    /\ pc = "call"
    /\ ret' = generate_row_group_density(df, Labels.alp.title, Labels.alp.xlabel,
                                         rows_per_group)
    /\ pc' = "returned"
    /\ UNCHANGED <<input, writable, df, filtered_df, result, disk, stderr, run,
                   prev, rows_per_group>>

NextAgg == call_generate

SpecAgg == InitAgg /\ [][NextAgg]_vars

----------------------------------------------------------------------------
(* Vocabulary of the properties *)

AfterAlp == pc \in {"alp_csv", "alp_png", "ldl", "ldl_csv", "ldl_png", "close", "done"}

AfterLdl == pc \in {"ldl_csv", "ldl_png", "close", "done"}

Loaded == pc \in {"loaded", "alp"} \/ AfterAlp

EnvOk == CanLoad(input) /\ CanFilter(input) /\ writable

Matches(r, loinc_codes) == r.code \in Range(loinc_codes) /\ r.value > 0

EntryNamesOf(d) == [i \in 1..Len(d.entries) |-> d.entries[i].name]

EntriesNamed(d, name) == SelectSeq(d.entries, LAMBDA e : e.name = name)

\* every row of out is a matching row of t, and every matching row of t is in
\* out exactly once
FilterExact(t, out, loinc_codes) ==
    /\ \A j \in DOMAIN out :
          /\ \E i \in DOMAIN t : t[i] = out[j]
          /\ Matches(out[j], loinc_codes)
    /\ \A i \in DOMAIN t :
          Matches(t[i], loinc_codes) =>
              Cardinality({j \in DOMAIN out : out[j] = t[i]}) = 1
    /\ \A i \in DOMAIN t :
          ~Matches(t[i], loinc_codes) => \A j \in DOMAIN out : out[j] # t[i]

\* C1: filter_lab_data returns exactly the rows whose code is accepted and
\* whose value is strictly positive; zero and negative values are excluded.
C1_FilterExact ==
    /\ AfterAlp => FilterExact(df, filtered_df.alp, alp_codes)
    /\ AfterLdl => FilterExact(df, filtered_df.ldl, ldl_codes)

C1_Witness ==
    /\ AfterAlp
    /\ filtered_df.alp # <<>>
    /\ \E i \in DOMAIN df : df[i].code \in Range(alp_codes) /\ df[i].value = 0
    /\ \E i \in DOMAIN df : df[i].code \notin Range(alp_codes) /\ df[i].value > 0

PositionIn(t, r) == CHOOSE i \in DOMAIN t : t[i] = r

OrderPreserved(t, out) ==
    \A j1, j2 \in DOMAIN out :
        j1 < j2 => PositionIn(t, out[j1]) < PositionIn(t, out[j2])

\* C2: the rows filter_lab_data keeps stay in their input order, and a filter
\* that matches nothing returns the empty table; it is not an error.
C2_OrderAndEmpty ==
    /\ AfterAlp => OrderPreserved(df, filtered_df.alp)
    /\ AfterLdl => OrderPreserved(df, filtered_df.ldl)
    /\ AfterAlp /\ (\A i \in DOMAIN df : ~Matches(df[i], alp_codes))
          => filtered_df.alp = <<>>
    /\ AfterLdl /\ (\A i \in DOMAIN df : ~Matches(df[i], ldl_codes))
          => filtered_df.ldl = <<>>
    /\ pc = "failed" => ~EnvOk

C2_Witness ==
    /\ pc = "done"
    /\ Len(df) = 3
    /\ filtered_df.alp = <<df[1], df[3]>>
    /\ df[1].value > df[3].value
    /\ filtered_df.ldl = <<>>

----------------------------------------------------------------------------
(* Chunked means *)

CeilDiv(n, w) == (n + w - 1) \div w

\* the positions (1-based) of the k-th window (k from 1) of n rows
WindowOf(k, n, w) == ((k - 1) * w + 1) .. Min(k * w, n)

\* C3: the aggregation yields ceil(N/W) records and its windows partition the
\* rows: consecutive windows of W rows in row order, only the last shorter.
C3_WindowsPartition ==
    pc = "returned" =>
        LET N == Len(df)
            W == rows_per_group
            chunks == ret.chunks
        IN  /\ Len(ret.grouped) = CeilDiv(N, W)
            /\ Len(chunks) = CeilDiv(N, W)
            /\ \A k \in DOMAIN chunks :
                  /\ Len(chunks[k]) = Cardinality(WindowOf(k, N, W))
                  /\ k < Len(chunks) => Len(chunks[k]) = W
                  /\ Len(chunks[k]) \in 1..W
                  /\ \A j \in DOMAIN chunks[k] :
                        /\ chunks[k][j].value = df[(k - 1) * W + j].value
                        /\ chunks[k][j].code = df[(k - 1) * W + j].code
                        /\ chunks[k][j].idx = (k - 1) * W + j - 1
            /\ \A i \in DOMAIN df : \E k \in DOMAIN chunks : i \in WindowOf(k, N, W)

C3_Witness ==
    /\ pc = "returned"
    /\ Len(df) = 5
    /\ rows_per_group = 2
    /\ Len(ret.grouped) = 3
    /\ Len(ret.chunks[3]) = 1

RECURSIVE SumOver(_, _)
SumOver(t, S) ==
    IF S = {} THEN 0
    ELSE LET i == CHOOSE x \in S : TRUE IN t[i].value + SumOver(t, S \ {i})

\* C4: record k has group_index k and group_mean = (sum of the k-th window's
\* values) / (number of its rows); indices run 0 .. records-1.
C4_IndexAndMean ==
    pc = "returned" =>
        LET N == Len(df)
            W == rows_per_group
            g == ret.grouped
        IN  \A k \in DOMAIN g :
                /\ g[k].group_index = k - 1
                /\ g[k].group_mean.den > 0
                /\ g[k].group_mean.num * Cardinality(WindowOf(k, N, W))
                      = SumOver(df, WindowOf(k, N, W)) * g[k].group_mean.den

C4_Witness ==
    /\ pc = "returned"
    /\ Len(ret.grouped) >= 2
    /\ ret.grouped[2].group_index = 1
    /\ ret.grouped[2].group_mean = [num |-> 3, den |-> 2]

----------------------------------------------------------------------------
(* The archive *)

\* C5 as stated: the four entries are alp_counts.csv, alp_density.png,
\* ldl_counts.csv and ldl_density.png.
C5_AsStated ==
    pc = "done" =>
        /\ Len(disk.entries) = 4
        /\ Range(EntryNamesOf(disk)) =
              {"alp_counts.csv", "alp_density.png", "ldl_counts.csv", "ldl_density.png"}

\* C5 (amended): after a successful run the archive holds exactly four
\* entries, named alp_counts_synth.csv, alp_density_synth.png,
\* ldl_counts_synth.csv and ldl_density_synth.png, whatever the input table.
C5_FourEntries ==
    pc = "done" =>
        /\ disk.exists
        /\ EntryNamesOf(disk) = <<"alp_counts_synth.csv", "alp_density_synth.png",
                                  "ldl_counts_synth.csv", "ldl_density_synth.png">>

C5_Witness ==
    /\ pc = "done"
    /\ Len(disk.entries) = 4
    /\ result.alp.png = <<>>
    /\ result.ldl.png # <<>>

HeaderOnly(csv) == Len(csv) = 1 /\ csv[1] = [kind |-> "header", cols |-> CsvHeader]

EmptyAggregateHandled(cat) ==
    LET grouped == result[cat].grouped
        csv == EntriesNamed(disk, EntryNames[cat].csv)
        png == EntriesNamed(disk, EntryNames[cat].png)
    IN  /\ Len(csv) = 1
        /\ Len(png) = 1
        /\ filtered_df[cat] = <<>> => grouped = <<>>
        /\ grouped = <<>> => HeaderOnly(csv[1].data) /\ Len(png[1].data) = 0
        /\ Len(png[1].data) = 0 => grouped = <<>>
        /\ grouped # <<>> => Len(csv[1].data) = 1 + Len(grouped)

\* C6: an empty aggregate does not fail the run: its CSV entry is the header
\* alone, its image entry is zero bytes, and the image is zero bytes only
\* when the aggregate is empty.
C6_EmptyAggregate ==
    /\ pc = "done" => EmptyAggregateHandled("alp") /\ EmptyAggregateHandled("ldl")
    /\ EnvOk => pc # "failed"

C6_Witness ==
    /\ pc = "done"
    /\ result.alp.grouped # <<>>
    /\ result.ldl.grouped = <<>>
    /\ filtered_df.ldl = <<>>

\* C7: a run ends with the archive written (four entries) or with a fatal
\* error and no archive at the output path.
C7_TerminalStates ==
    /\ pc = "done" => disk.exists /\ Len(disk.entries) = 4
    /\ pc = "failed" => ~disk.exists

CsvEntries(d) ==
    SelectSeq(d.entries, LAMBDA e : e.name \in {EntryNames.alp.csv, EntryNames.ldl.csv})

\* C8: a second run on the same input and output path writes the same CSV
\* entries as the first.
C8_SameCsvOnRerun ==
    pc = "done" /\ run >= 2 =>
        /\ prev.exists
        /\ CsvEntries(disk) = CsvEntries(prev)

C8_Witness ==
    /\ pc = "done"
    /\ run = 2
    /\ result.alp.grouped # <<>>
    /\ Len(CsvEntries(prev)) = 2

SomeEmptyAggregate ==
    \/ AfterAlp /\ result.alp.grouped = <<>>
    \/ AfterLdl /\ result.ldl.grouped = <<>>

\* C9 as stated: a filter that matches no row produces a diagnostic message.
C9_AsStated == pc = "done" /\ SomeEmptyAggregate => stderr # <<>>

\* C9 (amended): a filter that matches no row produces no diagnostic message
\* and is not fatal: the run goes on to write the archive.
C9_SilentNotFatal ==
    /\ SomeEmptyAggregate => stderr = <<>> /\ pc # "failed"
    /\ pc = "failed" => ~EnvOk

C9_Witness ==
    /\ pc = "done"
    /\ result.alp.grouped = <<>>
    /\ result.ldl.grouped = <<>>
    /\ stderr = <<>>
    /\ Len(disk.entries) = 4

IdxOf(t) == {t[i].idx : i \in DOMAIN t}

\* C10: processing leaves the source table unchanged, so the LDL output is
\* what LDL processing of the loaded table alone gives, and no row feeds
\* both categories.
C10_SourceUnchanged ==
    /\ Loaded => df = input.rows
    /\ AfterLdl =>
          /\ filtered_df.ldl = filter_lab_data(input.rows, ldl_codes).ret
          /\ result.ldl = generate_row_group_density(filtered_df.ldl, Labels.ldl.title,
                                                     Labels.ldl.xlabel, rows_per_group)
          /\ IdxOf(filtered_df.alp) \cap IdxOf(filtered_df.ldl) = {}
    /\ Range(alp_codes) \cap Range(ldl_codes) = {}

C10_Witness ==
    /\ pc = "done"
    /\ filtered_df.alp # <<>>
    /\ filtered_df.ldl # <<>>
    /\ Len(df) > Len(filtered_df.alp) + Len(filtered_df.ldl)

====
